---- MODULE Spec2Model ----
(***************************************************************************)
(* Model of the SV2 authentication bridge (src/src/auth_bridge/server.py). *)
(*                                                                         *)
(* The parts of the module:                                                *)
(*   - the delivery chain, AuthBridgeServer.forward_uri_to_wine, run one   *)
(*     external command at a time (specification ChainSpec);               *)
(*   - the capture endpoint, AuthBridgeServer.auth_callback_handler with   *)
(*     the hand-off writer it drives (specification Spec);                 *)
(*   - the start, callback and status endpoints together (WebSpec);        *)
(*   - two callbacks in the event loop, statement by statement (LoopSpec); *)
(*   - the prefix resolver and the path translation (PathSpec);            *)
(*   - the lookup of the executable, _find_sv2_executable (LocateSpec);    *)
(*   - the URI forwarder, forward_uri_to_callback, and the server that     *)
(*     answers it (RelaySpec);                                             *)
(*   - the capture and the inject endpoint together (InjectSpec).          *)
(***************************************************************************)
EXTENDS Integers, Sequences, FiniteSets, TLC

VARIABLES
    environ,         \* os.environ: SV2_BOTTLE_NAME, WINEPREFIX, USER
    flatpakOnPath,   \* shutil.which("flatpak") finds the tool
    bottleDirExists, \* the Bottles data directory of the named bottle exists
    chPc,            \* position of forward_uri_to_wine
    chUri,           \* the uri argument of the running chain
    chBottle,        \* bottle_name or SV2_BOTTLE_NAME of the running chain
    chResult,        \* "none" while running, else "true" / "false" (returned)
    chInvoked,       \* methods invoked in this run, in order, with outcome
    chLast,          \* what the last external command of this run did
    guestUriFile,    \* drive_c/sv2_uri.txt: "" (absent) or the uri in it
    guestBatFile,    \* drive_c/sv2_open_uri.bat is there
    licenseDirs,     \* guest identities whose license directory exists
    cvFiles,         \* guest identities whose license/cv (sentinel) exists
    cbFile,          \* identity -> content of license/cb, NoFile if absent
    tokenFile,       \* content of users/Public/sv2_auth_token.json
    auth_token,      \* self.auth_token
    user_info,       \* self.user_info
    last_auth_params,\* self.last_auth_params
    cap,             \* what the last handled callback did and answered
    task,            \* the two callback handler tasks of the event loop
    loopOwner,       \* the task the event loop is running, 0 if none
    trace,           \* probes and writes of the hand-off writer, in order
    snapshot,        \* the last answer of GET /auth/status held by a reader
    redirect_uri_used, \* self.redirect_uri_used
    startResp,       \* status of the last answer of GET /auth/start, 0: none
    attempt,         \* the states the current authorization attempt passed
    symlinks,        \* the symbolic links of the host file system
    wine_prefix,     \* the prefix get_wine_prefix returned last
    unix_path,       \* the unix_path argument of _to_windows_path
    win_path,        \* what _to_windows_path returned for it
    exeFiles,        \* the files named synthv-studio.exe below drive_c
    exe_path,        \* what _find_sv2_executable returned last
    relayed,         \* the request forward_uri_to_callback made last
    handled,         \* what forward_uri_to_callback returned for it
    injectResp       \* the last answer of POST /auth/inject

configVars == <<environ, flatpakOnPath, bottleDirExists>>
pathVars ==
    <<symlinks, wine_prefix, unix_path, win_path, exeFiles, exe_path>>
fsVars == <<licenseDirs, cvFiles, cbFile, tokenFile>>
sessionVars == <<auth_token, user_info, last_auth_params>>
loopVars == <<task, loopOwner, trace>>
webVars == <<snapshot, redirect_uri_used, startResp, attempt>>
serverVars == <<fsVars, sessionVars, cap, loopVars, webVars>>
clientVars == <<relayed, handled, injectResp>>
chainVars ==
    <<chPc, chUri, chBottle, chResult, chInvoked, chLast, guestUriFile,
      guestBatFile>>

----------------------------------------------------------------------------
(* Captured diagnostic text.  A text is modelled by the set of the        *)
(* fragments it contains, case kept; `x in text` is membership, and       *)
(* text.lower() lower-cases every fragment.                                *)

Fragments ==
    { "/bin/sh", "unexpected", "Unexpected", "ShellExecuteEx",
      "ShellExecuteEx failed", "Executable file path does not exist" }

LowerFragment(f) ==
    CASE f = "Unexpected" -> "unexpected"
      [] f = "ShellExecuteEx" -> "shellexecuteex"
      [] f = "ShellExecuteEx failed" -> "shellexecuteex failed"
      [] f = "Executable file path does not exist"
             -> "executable file path does not exist"
      [] OTHER -> f

Lower(text) == { LowerFragment(f) : f \in text }

Contains(text, marker) == marker \in text

\* The texts the external commands are made to print.
SampleTexts ==
    { {},
      {"/bin/sh"},
      {"unexpected"},
      {"Unexpected"},
      {"ShellExecuteEx"},
      {"ShellExecuteEx", "ShellExecuteEx failed"},
      {"Executable file path does not exist"} }

SampleStdout == { {}, {"/bin/sh"} }

----------------------------------------------------------------------------
(* subprocess.run: what the external command does, and what the caller    *)
(* sees of it given the timeout it passed.                                 *)

NoTimeout == 0 - 1
ShellTimeout == 15
BatchTimeout == 8
ProtocolTimeout == 8
DirectTimeout == 8

\* behaviours of one external command: it exits with a return code and
\* output, it never exits, or it cannot be launched at all (OSError).
ProcBehaviours ==
    [kind : {"exit"}, rc : {0, 1}, stderr : SampleTexts, stdout : SampleStdout]
    \cup [kind : {"hang", "oserror"}, rc : {0}, stderr : {{}}, stdout : {{}}]

\* "completed" | "TimeoutExpired" | "OSError" | "blocks" (waits forever)
SubprocessRun(beh, timeout) ==
    CASE beh.kind = "exit" -> "completed"
      [] beh.kind = "oserror" -> "OSError"
      [] beh.kind = "hang" /\ timeout # NoTimeout -> "TimeoutExpired"
      [] OTHER -> "blocks"

ManagedMethods == <<"shell_bridge", "batch", "protocol_dispatch", "direct_exe">>
PlainMethods == <<"plain_start", "plain_protocol_dispatch">>

TimeoutOf(method) ==
    CASE method = "shell_bridge" -> ShellTimeout
      [] method = "batch" -> BatchTimeout
      [] method = "protocol_dispatch" -> ProtocolTimeout
      [] method = "direct_exe" -> DirectTimeout
      [] OTHER -> NoTimeout

----------------------------------------------------------------------------
(* Outcome classification of one attempt, method by method.               *)

\* Method 0, bottles-cli shell -i
ShellBridgeOk(beh) ==
    LET stderr_text == beh.stderr
        shell_error ==
            \/ Contains(stderr_text, "/bin/sh")
            \/ Contains(Lower(stderr_text), "unexpected")
            \/ Contains(stderr_text, "ShellExecuteEx failed")
    IN  beh.rc = 0 /\ ~shell_error

\* Method 1, bottles-cli run cmd.exe /c sv2_open_uri.bat
BatchOk(beh) ==
    LET stderr_text == beh.stderr
        cmd_error ==
            \/ Contains(stderr_text, "Executable file path does not exist")
            \/ Contains(stderr_text, "ShellExecuteEx")
            \/ Contains(stderr_text, "/bin/sh")
            \/ Contains(Lower(stderr_text), "unexpected")
    IN  beh.rc = 0 /\ ~cmd_error

\* Method 2, bottles-cli run rundll32 url.dll,FileProtocolHandler
ProtocolDispatchOk(beh) ==
    LET stderr_text == beh.stderr
        shell_error ==
            \/ Contains(stderr_text, "/bin/sh")
            \/ Contains(Lower(stderr_text), "unexpected")
    IN  beh.rc = 0 /\ ~shell_error

\* Method 3, bottles-cli run <executable> <uri>
DirectExeOk(beh) == beh.rc = 0

\* wine start <uri>
PlainStartOk(beh) == beh.rc = 0

\* wine rundll32 url.dll,FileProtocolHandler <uri>
PlainProtocolDispatchOk(beh) == beh.rc = 0

MethodOk(method, beh) ==
    CASE method = "shell_bridge" -> ShellBridgeOk(beh)
      [] method = "batch" -> BatchOk(beh)
      [] method = "protocol_dispatch" -> ProtocolDispatchOk(beh)
      [] method = "direct_exe" -> DirectExeOk(beh)
      [] method = "plain_start" -> PlainStartOk(beh)
      [] OTHER -> PlainProtocolDispatchOk(beh)

\* Success | Failure | TimedOut, or Pending for a command that never returns
Classify(method, run, beh) ==
    CASE run = "TimeoutExpired" -> "TimedOut"
      [] run = "OSError" -> "Failure"
      [] run = "blocks" -> "Pending"
      [] OTHER -> IF MethodOk(method, beh) THEN "Success" ELSE "Failure"

\* a fall-through that leaves the batch method out
FollowingSkipsBatch(method) ==
    CASE method = "shell_bridge" -> "protocol_dispatch"
      [] method = "protocol_dispatch" -> "direct_exe"
      [] method = "plain_start" -> "plain_protocol_dispatch"
      [] OTHER -> "none"

\* The method the code falls through to after a method that did not return.
Following(method) ==
    CASE method = "shell_bridge" -> "batch"
      [] method = "batch" -> "protocol_dispatch"
      [] method = "protocol_dispatch" -> "direct_exe"
      [] method = "plain_start" -> "plain_protocol_dispatch"
      [] OTHER -> "none"

IsLast(method) == Following(method) = "none"

\* Advance with a success that falls through to the next method.
AdvanceFallsThrough(method, run, outcome) ==
    CASE run = "blocks" -> [pc |-> "blocked", result |-> "none"]
      [] IsLast(method) ->
            [pc |-> "returned",
             result |-> IF outcome = "Success" THEN "true" ELSE "false"]
      [] method = "plain_start" /\ run # "completed"
            -> [pc |-> "returned", result |-> "false"]
      [] OTHER -> [pc |-> Following(method), result |-> "none"]

\* Advance with a timeout handler that gives up (return False).
AdvanceTimeoutAborts(method, run, outcome) ==
    CASE run = "blocks" -> [pc |-> "blocked", result |-> "none"]
      [] outcome = "Success" -> [pc |-> "returned", result |-> "true"]
      [] IsLast(method) -> [pc |-> "returned", result |-> "false"]
      [] run = "TimeoutExpired" -> [pc |-> "returned", result |-> "false"]
      [] method = "plain_start" /\ run # "completed"
            -> [pc |-> "returned", result |-> "false"]
      [] OTHER -> [pc |-> Following(method), result |-> "none"]

\* Where the chain stands after an attempt: [pc, result].
Advance(method, run, outcome) ==
    CASE run = "blocks" -> [pc |-> "blocked", result |-> "none"]
      [] outcome = "Success" -> [pc |-> "returned", result |-> "true"]
      [] IsLast(method) -> [pc |-> "returned", result |-> "false"]
      \* the Plain chain has one try block around both commands
      [] method = "plain_start" /\ run # "completed"
            -> [pc |-> "returned", result |-> "false"]
      [] OTHER -> [pc |-> Following(method), result |-> "none"]

----------------------------------------------------------------------------
(* Configuration read from the process environment.                        *)

Unset == "<unset>"

BottleNames == {"", "sv2"}        \* "" : SV2_BOTTLE_NAME unset or empty
PrefixOverrides == {Unset, "/opt/prefix"}
HostUsers == {Unset, "alice"}

Environments ==
    [SV2_BOTTLE_NAME : BottleNames, WINEPREFIX : PrefixOverrides,
     USER : HostUsers]

ConfigInit ==
    /\ environ \in Environments
    /\ flatpakOnPath \in BOOLEAN
    /\ bottleDirExists \in BOOLEAN
    \* no bottle is named: there is no directory of that bottle to find
    /\ environ.SV2_BOTTLE_NAME = "" => ~bottleDirExists

----------------------------------------------------------------------------
(* forward_uri_to_wine, one action per external command.                   *)

SampleUris ==
    { "dreamtonics-svstudio2://auth/callback?code=abc123",
      "dreamtonics-svstudio2://auth/callback?code=xyz789#state=s1" }

NoAttempt == [kind |-> "none", rc |-> 0, stderr |-> {}, stdout |-> {}]

ChainInit ==
    /\ chPc = "idle"
    /\ chUri = ""
    /\ chBottle = ""
    /\ chResult = "none"
    /\ chInvoked = <<>>
    /\ chLast = NoAttempt
    /\ guestUriFile = ""
    /\ guestBatFile = FALSE

\* bottle = bottle_name or os.environ.get("SV2_BOTTLE_NAME")
BottleOf(bottle_name) ==
    IF bottle_name # "" THEN bottle_name ELSE environ.SV2_BOTTLE_NAME

\* if bottle and shutil.which("flatpak"): the Bottles methods, else wine
ChainVariant(bottle) ==
    IF bottle # "" /\ flatpakOnPath THEN "Managed" ELSE "Plain"

\* A call of forward_uri_to_wine(uri, bottle_name), up to its first command.
ForwardUriToWine ==
    /\ chPc \in {"idle", "returned", "raised"}
    /\ \E uri \in SampleUris, bottle_name \in BottleNames :
          LET bottle == BottleOf(bottle_name) IN
          /\ chUri' = uri
          /\ chBottle' = bottle
          /\ chPc' = IF ChainVariant(bottle) = "Managed"
                      THEN ManagedMethods[1] ELSE PlainMethods[1]
    /\ chResult' = "none"
    /\ chInvoked' = <<>>
    /\ chLast' = NoAttempt
    /\ UNCHANGED <<guestUriFile, guestBatFile, configVars, pathVars,
                   serverVars, clientVars>>

\* One external command of the chain and the code up to the next one.
Attempt(method) ==
    /\ chPc = method
    /\ \E beh \in ProcBehaviours :
          LET run == SubprocessRun(beh, TimeoutOf(method))
              outcome == Classify(method, run, beh)
              after == Advance(method, run, outcome)
          IN  /\ chInvoked' =
                    Append(chInvoked, [method |-> method, outcome |-> outcome])
              /\ chLast' = beh
              /\ chPc' = after.pc
              /\ chResult' = after.result
    /\ UNCHANGED <<chUri, chBottle, configVars, pathVars, serverVars,
                   clientVars>>

ShellBridge ==
    /\ Attempt("shell_bridge")
    /\ UNCHANGED <<guestUriFile, guestBatFile>>

\* uri_path.write_text(uri); bat_path.write_text(bat_content), outside any
\* try block, then the command.
BatchIndirection ==
    /\ chPc = "batch"
    /\ \E w \in {"ok", "uri_write_fails", "bat_write_fails"} :
          /\ guestUriFile' = IF w = "uri_write_fails" THEN guestUriFile
                              ELSE chUri
          /\ guestBatFile' = IF w = "ok" THEN TRUE ELSE guestBatFile
          /\ IF w = "ok"
              THEN Attempt("batch")
              ELSE /\ chPc' = "raised"
                   /\ chInvoked' =
                         Append(chInvoked,
                                [method |-> "batch", outcome |-> "Raised"])
                   /\ UNCHANGED <<chUri, chBottle, chResult, chLast,
                                  configVars, pathVars, serverVars,
                                  clientVars>>

ProtocolDispatch ==
    /\ Attempt("protocol_dispatch")
    /\ UNCHANGED <<guestUriFile, guestBatFile>>

DirectExecutable ==
    /\ Attempt("direct_exe")
    /\ UNCHANGED <<guestUriFile, guestBatFile>>

PlainStart ==
    /\ Attempt("plain_start")
    /\ UNCHANGED <<guestUriFile, guestBatFile>>

PlainProtocolDispatch ==
    /\ Attempt("plain_protocol_dispatch")
    /\ UNCHANGED <<guestUriFile, guestBatFile>>

ChainNext ==
    \/ ForwardUriToWine
    \/ ShellBridge
    \/ BatchIndirection
    \/ ProtocolDispatch
    \/ DirectExecutable
    \/ PlainStart
    \/ PlainProtocolDispatch

----------------------------------------------------------------------------
(* Python values.                                                          *)

PyNone == "<None>"
Truthy(v) == v \notin {"", PyNone}

\* a or b
Or(a, b) == IF Truthy(a) THEN a ELSE b

\* params.get(key)
Get(params, key) == IF key \in DOMAIN params THEN params[key] ELSE PyNone

----------------------------------------------------------------------------
(* The guest file system below the resolved prefix.                        *)

NoFile == "<no file>"
Identities == {"steamuser", "Public", "alice", "user"}

\* possible_users = ["steamuser", "Public", os.environ.get("USER", "user")]
PossibleUsers ==
    <<"steamuser", "Public",
      IF environ.USER = Unset THEN "user" ELSE environ.USER>>

Range(seq) == { seq[i] : i \in 1..Len(seq) }

\* a search that keeps the last candidate with a cv file instead
LastWithCv(users) ==
    LET hits == { i \in 1..Len(users) : users[i] \in cvFiles }
    IN  IF hits = {} THEN 0
        ELSE CHOOSE i \in hits : \A j \in hits : j <= i

\* index of the first candidate whose cv file exists, 0 if there is none
FirstWithCv(users) ==
    LET hits == { i \in 1..Len(users) : users[i] \in cvFiles }
    IN  IF hits = {} THEN 0
        ELSE CHOOSE i \in hits : \A j \in hits : i <= j

\* The directory tried when no candidate has a cv file.
FallbackUser == "steamuser"

\* _write_auth_code_to_cb_file(auth_code); write_raises: cb_file.write_text
\* raises.  [ret, cb, probed, written, raised]
WriteAuthCodeToCbFile(auth_code, write_raises) ==
    LET users == PossibleUsers
        k == FirstWithCv(users)
        target == IF k > 0 THEN users[k]
                  ELSE IF FallbackUser \in licenseDirs THEN FallbackUser
                  ELSE "none"
        probed == IF k > 0 THEN SubSeq(users, 1, k) ELSE users
    IN  IF target = "none" \/ write_raises
        THEN [ret |-> FALSE, cb |-> cbFile, probed |-> probed,
              written |-> <<>>, raised |-> target # "none"]
        ELSE [ret |-> TRUE, cb |-> [cbFile EXCEPT ![target] = auth_code],
              probed |-> probed, written |-> <<target>>, raised |-> FALSE]

----------------------------------------------------------------------------
(* The registry channel, _inject_registry_payload.                         *)

RegKeys == <<"AuthCode", "State", "SessionState", "Issuer", "AuthTimestamp">>

\* if bottle_name and shutil.which("flatpak"): bottles-cli reg add per key
RegistryManaged == environ.SV2_BOTTLE_NAME # "" /\ flatpakOnPath

\* What the registry tools do: which key writes exit non-zero, the command
\* (counted from 1) that cannot be launched (0: none), and for the Plain
\* path whether the .reg file can be written and regedit's return code.
RegBehaviours ==
    { [failing |-> {}, raiseAt |-> 0, tmpOk |-> TRUE, rc |-> 0],
      [failing |-> {"State", "Issuer"}, raiseAt |-> 0, tmpOk |-> TRUE,
       rc |-> 1],
      [failing |-> Range(RegKeys), raiseAt |-> 1, tmpOk |-> TRUE, rc |-> 0],
      [failing |-> {"Issuer"}, raiseAt |-> 3, tmpOk |-> FALSE, rc |-> 0] }

\* [ret, tried]: the return value and the commands launched, in order
InjectRegistryPayload(params, reg) ==
    IF RegistryManaged
    THEN LET all_success == reg.failing = {}
         IN  IF reg.raiseAt # 0
             THEN [ret |-> FALSE,
                   tried |-> SubSeq(RegKeys, 1, reg.raiseAt - 1)]
             ELSE IF all_success
             THEN [ret |-> TRUE, tried |-> RegKeys]
             \* "Continue anyway as file-based fallback exists"
             ELSE [ret |-> TRUE, tried |-> RegKeys]
    ELSE IF ~reg.tmpOk \/ reg.raiseAt # 0
         THEN [ret |-> FALSE, tried |-> <<>>]
         ELSE [ret |-> reg.rc = 0, tried |-> <<"regedit">>]

----------------------------------------------------------------------------
(* _store_auth_payload(params).                                            *)

NoPayload == [absent |-> TRUE]

\* a store in which a failed registry injection ends the hand-off
StoreAuthPayloadRegistryGates(params, payload_raises, reg, write_raises) ==
    LET r == InjectRegistryPayload(params, reg)
        w == WriteAuthCodeToCbFile(Get(params, "code"), write_raises)
    IN  IF payload_raises \/ ~r.ret
        THEN [success |-> FALSE, tokenFile |-> tokenFile, cb |-> cbFile,
              probed |-> <<>>, written |-> <<>>, cbRet |-> "not called",
              regRet |-> IF payload_raises THEN "not called" ELSE "false",
              regTried |-> IF payload_raises THEN <<>> ELSE r.tried,
              ioError |-> IF payload_raises THEN "payload" ELSE "none"]
        ELSE [success |-> TRUE,
              tokenFile |-> [access_token |-> auth_token,
                             auth_params |-> params],
              cb |-> w.cb, probed |-> w.probed, written |-> w.written,
              cbRet |-> IF w.ret THEN "true" ELSE "false",
              regRet |-> "true", regTried |-> r.tried,
              ioError |-> IF w.raised THEN "cb" ELSE "none"]

\* payload_raises: mkdir or open of the payload file raises.
\* [success, tokenFile, cb, probed, written, cbRet, regRet, regTried, ioError]
StoreAuthPayload(params, payload_raises, reg, write_raises) ==
    IF payload_raises
    THEN [success |-> FALSE, tokenFile |-> tokenFile, cb |-> cbFile,
          probed |-> <<>>, written |-> <<>>, cbRet |-> "not called",
          regRet |-> "not called", regTried |-> <<>>, ioError |-> "payload"]
    ELSE LET payload == [access_token |-> auth_token, auth_params |-> params]
             r == InjectRegistryPayload(params, reg)
             auth_code == Get(params, "code")
             w == WriteAuthCodeToCbFile(auth_code, write_raises)
         IN  IF Truthy(auth_code)
             THEN [success |-> TRUE, tokenFile |-> payload, cb |-> w.cb,
                   probed |-> w.probed, written |-> w.written,
                   cbRet |-> IF w.ret THEN "true" ELSE "false",
                   regRet |-> IF r.ret THEN "true" ELSE "false",
                   regTried |-> r.tried,
                   ioError |-> IF w.raised THEN "cb" ELSE "none"]
             ELSE [success |-> TRUE, tokenFile |-> payload, cb |-> cbFile,
                   probed |-> <<>>, written |-> <<>>, cbRet |-> "not called",
                   regRet |-> IF r.ret THEN "true" ELSE "false",
                   regTried |-> r.tried, ioError |-> "none"]

----------------------------------------------------------------------------
(* The capture endpoint, auth_callback_handler.                            *)

TokenA == "tokA"
TokenB == "tokB"

MaxCodes == 2
CodePool == <<"abc123", "xyz789", "q7w8e9", "zzz000">>
Codes == { CodePool[i] : i \in 1..MaxCodes }

\* The query strings the endpoint is called with.
SampleParams ==
    { [code |-> c, state |-> "s1"] : c \in Codes }
    \cup { [code |-> ""],
           [code |-> CodePool[1], access_token |-> TokenA, username |-> "bob"],
           [access_token |-> TokenA, user_id |-> "u1", username |-> "bob",
            email |-> "bob@example.org"],
           [token |-> TokenB, uid |-> "u2", user |-> "carol"],
           [access_token |-> "", error |-> "access_denied"],
           [state |-> "s1"] }

NoParams == [none |-> TRUE]
NoUserInfo == [none |-> TRUE]
NoCapture ==
    [route |-> "none", status |-> 0, success |-> "n/a", probed |-> <<>>,
     written |-> <<>>, cbRet |-> "not called", regRet |-> "not called",
     regTried |-> <<>>, ioError |-> "none"]

\* a derivation that reads only the primary parameter names
UserInfoOfNoAlias(params) ==
    [user_id |-> Or(Get(params, "user_id"), ""),
     username |-> Or(Get(params, "username"), ""),
     email |-> Or(Get(params, "email"), "")]

\* the user_info the handler derives from the parameters
UserInfoOf(params) ==
    [user_id |-> Or(Or(Get(params, "user_id"), Get(params, "uid")), ""),
     username |-> Or(Or(Get(params, "username"), Get(params, "user")), ""),
     email |-> Or(Get(params, "email"), "")]

NoSnapshot == [none |-> TRUE]
NoRelay == [state |-> "none"]
NoReply == [status |-> 0, body |-> "none", tokenStored |-> FALSE]

SessionInit ==
    /\ tokenFile = NoPayload
    /\ cbFile = [u \in Identities |-> NoFile]
    /\ auth_token = PyNone
    /\ user_info = NoUserInfo
    /\ last_auth_params = NoParams
    /\ cap = NoCapture
    /\ snapshot = NoSnapshot
    /\ redirect_uri_used = PyNone
    /\ startResp = 0
    /\ relayed = NoRelay
    /\ handled = "n/a"
    /\ injectResp = NoReply
    /\ attempt = <<"Idle">>

\* Any license directories and sentinel files under the candidate identities.
ServerInit ==
    /\ licenseDirs \in SUBSET Range(PossibleUsers)
    /\ cvFiles \in SUBSET licenseDirs
    /\ SessionInit

\* The states of one authorization attempt, as the handlers pass them.
\* A callback is received in the attempt that is idle or awaiting it, and
\* else, after an attempt that has ended, in a fresh one.  The hand-off is
\* attempted when _write_auth_code_to_cb_file is invoked, and the attempt of
\* a callback carrying a code ends with the value of _store_auth_payload.
AttemptBase ==
    IF attempt[Len(attempt)] \in {"Idle", "AwaitingCallback"}
    THEN attempt ELSE <<"Idle">>

AttemptAfter(route, handoff, success) ==
    AttemptBase \o <<"CallbackReceived">>
        \o (IF handoff THEN <<"HandoffAttempted">> ELSE <<>>)
        \o (IF route # "code" THEN <<>>
            ELSE IF success THEN <<"Delivered">> ELSE <<"DeliveryFailed">>)

\* GET /auth/callback?<params>
\* params.get("access_token") or params.get("token")
AccessTokenOf(params) ==
    Or(Get(params, "access_token"), Get(params, "token"))

\* a handler that looks for the token before it looks for the code
RouteOfTokenFirst(params) ==
    IF Truthy(AccessTokenOf(params)) THEN "token"
    ELSE IF "code" \in DOMAIN params THEN "code"
    ELSE "invalid"

\* the branch the handler takes: `if "code" in params` comes first, the
\* token is looked at only when there is no code
RouteOf(params) ==
    IF "code" \in DOMAIN params THEN "code"
    ELSE IF Truthy(AccessTokenOf(params)) THEN "token"
    ELSE "invalid"

CallbackHandler(params) ==
    /\   LET access_token == AccessTokenOf(params)
         IN
         /\ last_auth_params' = params
         /\ IF RouteOf(params) = "code"
            THEN \E payload_raises \in BOOLEAN, reg \in RegBehaviours,
                    write_raises \in BOOLEAN :
                   \E st \in {StoreAuthPayload(params, payload_raises, reg,
                                                write_raises)} :
                   /\ tokenFile' = st.tokenFile
                   /\ cbFile' = st.cb
                   /\ cap' =
                        [route |-> "code",
                         status |-> IF st.success THEN 200 ELSE 500,
                         success |-> IF st.success THEN "true" ELSE "false",
                         probed |-> st.probed, written |-> st.written,
                         cbRet |-> st.cbRet, regRet |-> st.regRet,
                         regTried |-> st.regTried, ioError |-> st.ioError]
                   /\ attempt' = AttemptAfter("code", st.cbRet # "not called",
                                               st.success)
                   /\ UNCHANGED <<auth_token, user_info>>
            ELSE IF RouteOf(params) = "token"
            THEN /\ auth_token' = access_token
                 /\ user_info' = UserInfoOf(params)
                 \* self._inject_auth_token is not defined: AttributeError,
                 \* which the web framework answers with 500
                 /\ cap' = [NoCapture EXCEPT !.route = "token",
                                              !.status = 500]
                 /\ attempt' = AttemptAfter("token", FALSE, FALSE)
                 /\ UNCHANGED <<tokenFile, cbFile>>
            ELSE /\ cap' = [NoCapture EXCEPT !.route = "invalid",
                                              !.status = 400]
                 /\ attempt' = AttemptAfter("invalid", FALSE, FALSE)
                 /\ UNCHANGED <<tokenFile, cbFile, auth_token, user_info>>
    /\ UNCHANGED <<licenseDirs, cvFiles, configVars, pathVars, chainVars,
                   loopVars, snapshot, redirect_uri_used, startResp>>

\* GET /auth/callback, called directly (by the browser's redirect)
AuthCallback ==
    /\ \E params \in SampleParams : CallbackHandler(params)
    /\ UNCHANGED clientVars

----------------------------------------------------------------------------
(* The URI forwarder, forward_uri_to_callback, run by main for a           *)
(* dreamtonics-svstudio2:// activation in a process of its own.            *)
(*                                                                         *)
(* A URI and a query string are sequences of tokens: the delimiters, the  *)
(* escapes, and words of unreserved characters.                            *)

\* what urllib.parse.unquote makes of the %XX escapes
PercentCodes ==
    [c \in {"%20", "%26", "%3D", "%2B", "%23", "%3F"} |->
        CASE c = "%20" -> " " [] c = "%26" -> "&" [] c = "%3D" -> "="
          [] c = "%2B" -> "+" [] c = "%23" -> "#" [] c = "%3F" -> "?"]

\* parse_qsl on one token: '+' is a space, then unquote
Decode(tok) ==
    IF tok = "+" THEN " "
    ELSE IF tok \in DOMAIN PercentCodes THEN PercentCodes[tok] ELSE tok

\* urllib.parse.quote_plus on one character or word
QuotePlus(ch) ==
    IF ch = " " THEN "+"
    ELSE IF \E c \in DOMAIN PercentCodes : PercentCodes[c] = ch
         THEN CHOOSE c \in DOMAIN PercentCodes : PercentCodes[c] = ch
         ELSE ch

DecodeAll(toks) == [i \in 1..Len(toks) |-> Decode(toks[i])]
QuoteAll(chars) == [i \in 1..Len(chars) |-> QuotePlus(chars[i])]

\* the str the tokens spell
RECURSIVE Text(_)
Text(toks) == IF toks = <<>> THEN "" ELSE toks[1] \o Text(Tail(toks))

\* index of the first sep in toks, 0 if there is none
IndexOf(toks, sep) ==
    IF \E i \in 1..Len(toks) : toks[i] = sep
    THEN CHOOSE i \in 1..Len(toks) :
             /\ toks[i] = sep
             /\ \A j \in 1..(i - 1) : toks[j] # sep
    ELSE 0

\* s.split(sep, 1): the part before the first sep, and the part after it
Before(toks, sep) ==
    IF IndexOf(toks, sep) = 0 THEN toks
    ELSE SubSeq(toks, 1, IndexOf(toks, sep) - 1)
After(toks, sep) ==
    IF IndexOf(toks, sep) = 0 THEN <<>>
    ELSE SubSeq(toks, IndexOf(toks, sep) + 1, Len(toks))

\* s.split(sep)
RECURSIVE Fields(_, _)
Fields(toks, sep) ==
    IF IndexOf(toks, sep) = 0 THEN <<toks>>
    ELSE <<Before(toks, sep)>> \o Fields(After(toks, sep), sep)

\* urllib.parse.urlparse(uri): the fragment is cut off first, the query next
UrlParse(uri) ==
    [query |-> After(Before(uri, "#"), "?"), fragment |-> After(uri, "#")]

NonEmpty(field) == field # <<>>

\* urllib.parse.parse_qsl(source, keep_blank_values=True): the name=value
\* fields in order, empty fields skipped, a field without '=' has value ''
ParseQsl(source) ==
    LET fields == SelectSeq(Fields(source, "&"), NonEmpty)
    IN  [i \in 1..Len(fields) |->
            [name |-> DecodeAll(Before(fields[i], "=")),
             value |-> DecodeAll(After(fields[i], "="))]]

\* the names of a list of pairs, each once, in order of first occurrence
RECURSIVE NamesOf(_)
NamesOf(pairs) ==
    IF pairs = <<>> THEN <<>>
    ELSE LET init == NamesOf(SubSeq(pairs, 1, Len(pairs) - 1))
             last == pairs[Len(pairs)].name
         IN  IF \E i \in 1..Len(init) : init[i] = last
             THEN init ELSE Append(init, last)

\* the values a list of pairs gives for a name, in order
ValuesOf(pairs, name) ==
    LET RECURSIVE Pick(_)
        Pick(i) ==
            IF i > Len(pairs) THEN <<>>
            ELSE IF pairs[i].name = name
                 THEN <<pairs[i].value>> \o Pick(i + 1)
                 ELSE Pick(i + 1)
    IN  Pick(1)

\* urllib.parse.parse_qs: a dict (in insertion order) from each name to the
\* list of its values
ParseQs(source) ==
    LET pairs == ParseQsl(source)
        names == NamesOf(pairs)
    IN  [i \in 1..Len(names) |->
            [name |-> names[i], value |-> ValuesOf(pairs, names[i])]]

HasName(dict, name) == \E i \in 1..Len(dict) : dict[i].name = name
Lookup(dict, name) ==
    dict[CHOOSE i \in 1..Len(dict) : dict[i].name = name].value

\* d.update(e): the entries of e replace those of d of the same name, new
\* names are appended
DictUpdate(d, e) ==
    LET NotInD(entry) == ~HasName(d, entry.name)
    IN  [i \in 1..Len(d) |->
            IF HasName(e, d[i].name)
            THEN [name |-> d[i].name, value |-> Lookup(e, d[i].name)]
            ELSE d[i]]
        \o SelectSeq(e, NotInD)

\* a reading in which the query's value of a name stays
ExtractUriParamsQueryWins(uri) ==
    LET parsed == UrlParse(uri)
        params == DictUpdate(ParseQs(parsed.fragment), ParseQs(parsed.query))
    IN  [i \in 1..Len(params) |->
            [name |-> params[i].name, value |-> params[i].value[1]]]

\* _extract_uri_params(uri)
ExtractUriParams(uri) ==
    LET parsed == UrlParse(uri)
        fromQuery ==
            IF parsed.query # <<>>
            THEN DictUpdate(<<>>, ParseQs(parsed.query)) ELSE <<>>
        params ==
            IF parsed.fragment # <<>>
            THEN DictUpdate(fromQuery, ParseQs(parsed.fragment))
            ELSE fromQuery
    IN  [i \in 1..Len(params) |->
            [name |-> params[i].name, value |-> params[i].value[1]]]

\* urllib.parse.urlencode(params)
RECURSIVE Urlencode(_)
Urlencode(params) ==
    IF params = <<>> THEN <<>>
    ELSE LET field(p) == QuoteAll(p.name) \o <<"=">> \o QuoteAll(p.value)
         IN  IF Len(params) = 1 THEN field(params[1])
             ELSE field(params[1]) \o <<"&">> \o Urlencode(Tail(params))

\* dict(request.query): what the handler reads from the query string of
\* the request, the first value of each name
RequestQuery(query) ==
    LET pairs == ParseQsl(query)
        names == { Text(pairs[i].name) : i \in 1..Len(pairs) }
    IN  [k \in names |->
            Text(pairs[CHOOSE i \in 1..Len(pairs) :
                         /\ Text(pairs[i].name) = k
                         /\ \A j \in 1..(i - 1) : Text(pairs[j].name) # k
                      ].value)]

Scheme == "dreamtonics-svstudio2://callback"

\* The URIs the desktop hands to the forwarder.
ActivationUris ==
    { <<Scheme, "?", "code", "=", "abc123", "&", "state", "=", "s1">>,
      <<Scheme, "#", "code", "=", "xyz789", "&", "state", "=", "s1">>,
      <<Scheme, "?", "code", "=", "abc123", "&", "code", "=", "xyz789">>,
      <<Scheme, "?", "code", "=", "abc123", "&", "state", "=", "s1",
        "#", "code", "=", "xyz789">>,
      <<Scheme, "?", "state", "=", "s", "+", "1", "%26", "x", "&",
        "code", "=", "abc123">>,
      <<Scheme, "?", "access_token", "=", "tokA", "&", "username", "=",
        "bob">>,
      <<Scheme, "?", "code", "=">>,
      <<Scheme, "?", "error", "=", "access_denied">> }

\* main with --handle-uri: the forwarder builds the callback URL for the
\* uri and sends the request
HandleUri ==
    /\ \E uri \in ActivationUris :
         relayed' = [state |-> "sent", uri |-> uri,
                     query |-> Urlencode(ExtractUriParams(uri))]
    /\ handled' = "n/a"
    /\ UNCHANGED <<configVars, pathVars, serverVars, chainVars, injectResp>>

\* The server handles the forwarder's request.  The forwarder waits five
\* seconds for the answer (timeout=5): an answer after that, like an answer
\* with an error status (HTTPError), makes it return False.
RelayedCallback ==
    /\ relayed.state = "sent"
    /\ CallbackHandler(RequestQuery(relayed.query))
    /\ \E in_time \in BOOLEAN :
         /\ relayed' = [state |-> "answered", uri |-> relayed.uri,
                        query |-> relayed.query, answer |-> cap'.status,
                        in_time |-> in_time]
         /\ handled' =
              IF in_time /\ cap'.status = 200 THEN "true" ELSE "false"
    /\ UNCHANGED injectResp

\* No server listens on the port: urlopen raises, the forwarder returns
\* False
RelayRefused ==
    /\ relayed.state = "sent"
    /\ relayed' = [state |-> "refused", uri |-> relayed.uri,
                   query |-> relayed.query]
    /\ handled' = "false"
    /\ UNCHANGED <<configVars, pathVars, serverVars, chainVars, injectResp>>

----------------------------------------------------------------------------
(* The status endpoint, auth_status_handler.                               *)

\* bool(self.last_auth_params and "code" in self.last_auth_params)
HasAuthCode ==
    /\ last_auth_params # NoParams
    /\ DOMAIN last_auth_params # {}
    /\ "code" \in DOMAIN last_auth_params

\* a status that reads the flag from the last capture's parameters
StatusBodyOfLastCapture ==
    [authenticated |->
         /\ last_auth_params # NoParams
         /\ Truthy(AccessTokenOf(last_auth_params)),
     has_auth_code |-> HasAuthCode,
     user_info |-> IF user_info # NoUserInfo THEN user_info ELSE NoUserInfo]

\* the JSON body of GET /auth/status
StatusBody ==
    [authenticated |-> auth_token # PyNone,
     has_auth_code |-> HasAuthCode,
     user_info |-> IF user_info # NoUserInfo THEN user_info ELSE NoUserInfo]

\* a response that would keep referring to the session it was built from
LiveResponse(body) == [live |-> TRUE, body |-> body]

\* web.json_response(data): the body is serialised to text (json.dumps)
\* when the response is built, so the reader gets a value, not a reference
JsonResponse(body) == [live |-> FALSE, body |-> body]

\* what the reader of the snapshot sees in it
SnapshotView == IF snapshot.live THEN StatusBody ELSE snapshot.body

\* GET /auth/status
AuthStatus ==
    /\ snapshot' = JsonResponse(StatusBody)
    /\ UNCHANGED <<fsVars, sessionVars, cap, loopVars, redirect_uri_used,
                   startResp, attempt, configVars, pathVars, chainVars,
                   clientVars>>

\* POST /auth/inject
AuthInject ==
    /\ IF ~Truthy(auth_token)
       THEN injectResp' = [status |-> 400, body |-> "error",
                           tokenStored |-> FALSE]
       \* self._inject_auth_token is not defined: AttributeError, which
       \* the web framework answers with 500
       ELSE injectResp' = [status |-> 500, body |-> "Internal Server Error",
                           tokenStored |-> TRUE]
    /\ UNCHANGED <<configVars, pathVars, serverVars, chainVars, relayed,
                   handled>>

----------------------------------------------------------------------------
(* The start endpoint, auth_start_handler.                                 *)

RedirectUri == "dreamtonics-svstudio2://auth/callback"

\* GET /auth/start; webbrowser.open may raise
AuthStart ==
    /\ redirect_uri_used' = RedirectUri
    /\ \E browser_raises \in BOOLEAN :
         startResp' = IF browser_raises THEN 500 ELSE 200
    /\ attempt' = <<"Idle", "AwaitingCallback">>
    /\ UNCHANGED <<fsVars, sessionVars, cap, loopVars, snapshot, configVars,
                   pathVars, chainVars, clientVars>>

----------------------------------------------------------------------------
(* Two callbacks handled by the one asyncio event loop (asyncio.run(main)).*)
(* A handler task runs until it suspends; the handler is followed         *)
(* statement by statement, the labels naming the statement about to run.   *)

Tasks == {1, 2}

\* The awaits of the handler (lines 236, 368, 375) are entered at the
\* labels "payload", "registry" and "probe"; "write" is reached inside
\* _write_auth_code_to_cb_file, which has no await.
AwaitLabels == {"payload", "registry", "probe"}

\* The awaited coroutines that give the loop away: they are methods of the
\* same object doing blocking file and subprocess calls, none awaits a
\* future, so none does.
YieldingAwaits == {}

\* file operations that give the loop away, as asynchronous file I/O would
SuspendsOnFileIO(label) == label \in {"probe", "write"}

\* control returns to the event loop when the task arrives at the label
Suspends(label) == label \in YieldingAwaits

IdleTask == [pc |-> "idle", code |-> "", idx |-> 0, target |-> "none"]

LoopInit ==
    /\ task = [t \in Tasks |-> IdleTask]
    /\ loopOwner = 0
    /\ trace = <<>>

\* the event loop runs task t: it holds the loop, or the loop is free
Runs(t) == loopOwner \in {0, t}

\* task t arrives at the label
Arrive(t, label) ==
    loopOwner' = IF label = "done" \/ Suspends(label) THEN 0 ELSE t

\* lines 229-236: a callback carrying a code enters the handler
Receive(t) ==
    /\ Runs(t)
    /\ task[t].pc = "idle"
    /\ \E c \in Codes :
         /\ last_auth_params' = [code |-> c, state |-> "s1"]
         /\ task' = [task EXCEPT ![t] = [IdleTask EXCEPT !.pc = "payload",
                                                        !.code = c]]
    /\ Arrive(t, "payload")
    /\ UNCHANGED <<fsVars, auth_token, user_info, cap, webVars, trace,
                   configVars, pathVars, chainVars, clientVars>>

\* lines 352-366: the diagnostic payload file
WritePayload(t) ==
    /\ Runs(t)
    /\ task[t].pc = "payload"
    /\ \E payload_raises \in BOOLEAN :
         IF payload_raises
         THEN /\ task' = [task EXCEPT ![t].pc = "done"]
              /\ Arrive(t, "done")
              /\ UNCHANGED tokenFile
         ELSE /\ tokenFile' = [access_token |-> auth_token,
                               auth_params |-> [code |-> task[t].code,
                                                state |-> "s1"]]
              /\ task' = [task EXCEPT ![t].pc = "registry"]
              /\ Arrive(t, "registry")
    /\ UNCHANGED <<licenseDirs, cvFiles, cbFile, sessionVars, cap, webVars,
                   trace, configVars, pathVars, chainVars, clientVars>>

\* line 368: the registry channel, whatever its tools do
InjectRegistry(t) ==
    /\ Runs(t)
    /\ task[t].pc = "registry"
    /\ \E reg \in RegBehaviours :
         InjectRegistryPayload([code |-> task[t].code, state |-> "s1"],
                               reg).ret \in BOOLEAN
    /\ task' = [task EXCEPT ![t].pc = "probe", ![t].idx = 1]
    /\ Arrive(t, "probe")
    /\ UNCHANGED <<fsVars, sessionVars, cap, webVars, trace, configVars,
                   pathVars, chainVars, clientVars>>

\* lines 391-408: cv_file.exists() of the next candidate, then
\* license_dir.exists() of the fallback directory
Probe(t) ==
    /\ Runs(t)
    /\ task[t].pc = "probe"
    /\ LET users == PossibleUsers
           i == task[t].idx
           user == IF i <= Len(users) THEN users[i] ELSE FallbackUser
           found == IF i <= Len(users) THEN user \in cvFiles
                    ELSE user \in licenseDirs
           next == IF found THEN "write"
                   ELSE IF i <= Len(users) THEN "probe" ELSE "done"
       IN  /\ trace' = Append(trace, [task |-> t, op |-> "probe",
                                      user |-> user])
           /\ task' = [task EXCEPT ![t].pc = next, ![t].idx = i + 1,
                                   ![t].target =
                                       IF found THEN user ELSE "none"]
           /\ Arrive(t, next)
    /\ UNCHANGED <<fsVars, sessionVars, cap, webVars, configVars, pathVars,
                   chainVars, clientVars>>

\* lines 399-400, 410-411: cb_file.write_text(auth_code)
WriteCb(t) ==
    /\ Runs(t)
    /\ task[t].pc = "write"
    /\ \E write_raises \in BOOLEAN :
         IF write_raises
         THEN UNCHANGED <<cbFile, trace>>
         ELSE /\ cbFile' = [cbFile EXCEPT ![task[t].target] = task[t].code]
              /\ trace' = Append(trace, [task |-> t, op |-> "write",
                                         user |-> task[t].target])
    /\ task' = [task EXCEPT ![t].pc = "done"]
    /\ Arrive(t, "done")
    /\ UNCHANGED <<licenseDirs, cvFiles, tokenFile, sessionVars, cap,
                   webVars, configVars, pathVars, chainVars, clientVars>>

LoopNext ==
    \/ \E t \in Tasks : Receive(t)
    \/ \E t \in Tasks : WritePayload(t)
    \/ \E t \in Tasks : InjectRegistry(t)
    \/ \E t \in Tasks : Probe(t)
    \/ \E t \in Tasks : WriteCb(t)

----------------------------------------------------------------------------
(* Host paths.  A path is the sequence of its segments; a segment (a file  *)
(* name) is a sequence of tokens: a name without a backslash is one token  *)
(* and a backslash in a name is a token of its own.  A string built from   *)
(* paths is a sequence of tokens as well.                                  *)

Backslash == "\\"
Name(n) == <<n>>
PathOf(names) == [i \in 1..Len(names) |-> Name(names[i])]
NoPath == <<>>

DriveC == Name("drive_c")
\* Path.home()
HomeDir == PathOf(<<"home", "alice">>)
\* os.path.expanduser("~/.wine-sv2")
DefaultPrefix == HomeDir \o PathOf(<<".wine-sv2">>)
\* Path.home() / ".var/app/com.usebottles.bottles/data/bottles/bottles" / name
BottlesPrefix(bottle_name) ==
    HomeDir \o PathOf(<<".var", "app", "com.usebottles.bottles", "data",
                        "bottles", "bottles", bottle_name>>)
\* Path(os.environ.get("WINEPREFIX"))
OverridePath(text) ==
    CASE text = "/opt/prefix" -> PathOf(<<"opt", "prefix">>)
      [] OTHER -> PathOf(<<text>>)

\* a resolver that takes the bottle directory without looking for it
GetWinePrefixNoExistsCheck ==
    LET bottle_name == environ.SV2_BOTTLE_NAME
    IN  IF bottle_name # ""
        THEN BottlesPrefix(bottle_name)
        ELSE IF environ.WINEPREFIX # Unset
        THEN OverridePath(environ.WINEPREFIX)
        ELSE DefaultPrefix

\* get_wine_prefix()
GetWinePrefix ==
    LET bottle_name == environ.SV2_BOTTLE_NAME
    IN  IF bottle_name # "" /\ bottleDirExists
        THEN BottlesPrefix(bottle_name)
        ELSE IF environ.WINEPREFIX # Unset
        THEN OverridePath(environ.WINEPREFIX)
        ELSE DefaultPrefix

\* the prefix of the Plain chain:
\* os.environ.get("WINEPREFIX", os.path.expanduser("~/.wine-sv2"))
PlainChainRoot ==
    IF environ.WINEPREFIX # Unset
    THEN OverridePath(environ.WINEPREFIX)
    ELSE DefaultPrefix

\* Path.resolve(): the path with every symbolic link on it followed
RECURSIVE ResolveFrom(_, _, _)
ResolveFrom(p, i, cur) ==
    IF i > Len(p) THEN cur
    ELSE LET nxt == Append(cur, p[i])
             hit == { l \in symlinks : l.from = nxt }
         IN  ResolveFrom(p, i + 1,
                         IF hit = {} THEN nxt
                         ELSE (CHOOSE l \in hit : TRUE).to)

Resolve(p) == ResolveFrom(p, 1, <<>>)

\* path.relative_to(base): ok is false where it raises ValueError
RelativeTo(path, base) ==
    IF Len(base) <= Len(path) /\ SubSeq(path, 1, Len(base)) = base
    THEN [ok |-> TRUE, parts |-> SubSeq(path, Len(base) + 1, Len(path))]
    ELSE [ok |-> FALSE, parts |-> <<>>]

\* sep.join(parts)
RECURSIVE Join(_, _)
Join(parts, sep) ==
    IF parts = <<>> THEN <<>>
    ELSE IF Len(parts) = 1 THEN parts[1]
    ELSE parts[1] \o <<sep>> \o Join(Tail(parts), sep)

\* str(path) of an absolute host path
HostText(p) == <<"/">> \o Join(p, "/")

\* _to_windows_path(unix_path, wine_prefix)
ToWindowsPath(path_arg, prefix_arg) ==
    LET prefix == Resolve(prefix_arg)
        path == Resolve(path_arg)
        rel == RelativeTo(path, Append(prefix, DriveC))
    IN  IF rel.ok
        THEN <<"C:", Backslash>> \o Join(rel.parts, Backslash)
        ELSE HostText(path_arg)

\* The file names met below the prefix; the last one holds a backslash.
SampleSegments ==
    { Name("svstudio2_app"), Name("synthv-studio.exe"),
      <<"old", Backslash, "apps">> }

MaxPathDepth == 2

RECURSIVE PathsOfDepth(_)
PathsOfDepth(n) ==
    IF n = 0 THEN {<<>>}
    ELSE { Append(p, s) : p \in PathsOfDepth(n - 1), s \in SampleSegments }

\* host paths below the drive root of the prefix, and outside of it
SamplePaths(prefix) ==
    { Append(prefix, DriveC) \o rest :
         rest \in UNION { PathsOfDepth(n) : n \in 0..MaxPathDepth } }
    \cup { PathOf(<<"opt", "sv2", "synthv-studio.exe">>),
           Append(prefix, Name("dosdevices")), HomeDir }

\* The symbolic links of the host: none; the application directory of the
\* guest drive a link to /opt/sv2; the prefix itself a link.
LinkTables(prefix) ==
    { {},
      { [from |-> Append(prefix, DriveC) \o PathOf(<<"svstudio2_app">>),
         to |-> PathOf(<<"opt", "sv2">>)] },
      { [from |-> prefix, to |-> PathOf(<<"mnt", "wine">>)] } }

\* The known install paths, relative to drive_c, in the order probed.
ExeName == Name("synthv-studio.exe")
ExeCandidates ==
    << PathOf(<<"svstudio2_app", "synthv-studio.exe">>),
       PathOf(<<"Program Files", "Dreamtonics", "Synthesizer V Studio 2",
                "synthv-studio.exe">>),
       PathOf(<<"Program Files (x86)", "Dreamtonics",
                "Synthesizer V Studio 2", "synthv-studio.exe">>) >>

\* Places below drive_c where the executable may lie as well.
OtherExePlaces ==
    { PathOf(<<"Games", "synthv-studio.exe">>),
      PathOf(<<"users", "steamuser", "Desktop", "synthv-studio.exe">>) }

NoExe == [unset |-> TRUE]

\* a lookup that keeps the last known install path that exists
FindSv2ExecutableLastCandidate(prefix, search_raises) ==
    LET drive_c == Append(prefix, DriveC)
        hits == { i \in 1..Len(ExeCandidates) : ExeCandidates[i] \in exeFiles }
        matches == { f \in exeFiles : f[Len(f)] = ExeName }
    IN  IF hits # {}
        THEN { [path |-> drive_c
                           \o ExeCandidates[CHOOSE i \in hits :
                                               \A j \in hits : j <= i],
                search |-> "not run"] }
        ELSE IF search_raises
        THEN { [path |-> NoPath, search |-> "raised"] }
        ELSE IF matches = {}
        THEN { [path |-> NoPath, search |-> "completed"] }
        ELSE { [path |-> drive_c \o f, search |-> "completed"] :
                  f \in matches }

\* _find_sv2_executable(wine_prefix): the values it can return (path is
\* NoPath for None), with what became of the recursive search.  rglob
\* yields its matches in directory order, so any match can be the first;
\* search_raises: rglob raises before it yields one.
FindSv2Executable(prefix, search_raises) ==
    LET drive_c == Append(prefix, DriveC)
        hits == { i \in 1..Len(ExeCandidates) : ExeCandidates[i] \in exeFiles }
        matches == { f \in exeFiles : f[Len(f)] = ExeName }
    IN  IF hits # {}
        THEN { [path |-> drive_c
                           \o ExeCandidates[CHOOSE i \in hits :
                                               \A j \in hits : i <= j],
                search |-> "not run"] }
        ELSE IF search_raises
        THEN { [path |-> NoPath, search |-> "raised"] }
        ELSE IF matches = {}
        THEN { [path |-> NoPath, search |-> "completed"] }
        ELSE { [path |-> drive_c \o f, search |-> "completed"] :
                  f \in matches }

PathInit ==
    /\ symlinks = {}
    /\ wine_prefix = NoPath
    /\ unix_path = NoPath
    /\ win_path = NoPath
    /\ exeFiles = {}
    /\ exe_path = NoExe

\* wine_prefix = self.get_wine_prefix()
ResolvePrefix ==
    /\ wine_prefix' = GetWinePrefix
    /\ UNCHANGED <<symlinks, unix_path, win_path, exeFiles, exe_path,
                   configVars, serverVars, chainVars, clientVars>>

\* _to_windows_path(exe_path, str(wine_prefix))
TranslatePath ==
    /\ wine_prefix # NoPath
    /\ \E p \in SamplePaths(wine_prefix) :
         /\ unix_path' = p
         /\ win_path' = ToWindowsPath(p, wine_prefix)
    /\ UNCHANGED <<symlinks, wine_prefix, exeFiles, exe_path, configVars,
                   serverVars, chainVars, clientVars>>

\* exe_path = AuthBridgeServer._find_sv2_executable(str(wine_prefix))
LocateExecutable ==
    /\ wine_prefix # NoPath
    /\ \E search_raises \in BOOLEAN :
         exe_path' \in FindSv2Executable(wine_prefix, search_raises)
    /\ UNCHANGED <<symlinks, wine_prefix, unix_path, win_path, exeFiles,
                   configVars, serverVars, chainVars, clientVars>>

PathNext ==
    \/ ResolvePrefix
    \/ TranslatePath

----------------------------------------------------------------------------
vars == <<configVars, pathVars, serverVars, chainVars, clientVars>>

\* The configurations the server is run in: with and without a bottle,
\* with and without the Bottles tool, with and without USER.
ServerConfigs ==
    { <<[SV2_BOTTLE_NAME |-> "", WINEPREFIX |-> Unset, USER |-> "alice"],
        FALSE, FALSE>>,
      <<[SV2_BOTTLE_NAME |-> "sv2", WINEPREFIX |-> Unset, USER |-> Unset],
        TRUE, TRUE>>,
      <<[SV2_BOTTLE_NAME |-> "sv2", WINEPREFIX |-> "/opt/prefix",
         USER |-> "alice"], FALSE, FALSE>> }

Init ==
    /\ \E cfg \in ServerConfigs :
         /\ environ = cfg[1]
         /\ flatpakOnPath = cfg[2]
         /\ bottleDirExists = cfg[3]
    /\ ServerInit
    /\ LoopInit
    /\ PathInit
    /\ ChainInit

Next == AuthCallback

Spec == Init /\ [][Next]_vars

\* The delivery chain alone, in every configuration: the server part stays
\* as constructed, over an empty guest file system.
ChainSpecInit ==
    /\ ConfigInit
    /\ licenseDirs = {}
    /\ cvFiles = {}
    /\ SessionInit
    /\ LoopInit
    /\ PathInit
    /\ ChainInit

ChainSpec == ChainSpecInit /\ [][ChainNext]_vars

\* The web endpoints of one server, called in any order, in the default
\* Plain prefix and in a bottle, over a guest file system without a license
\* directory or with the one of steamuser.
WebInit ==
    /\ \E cfg \in { c \in ServerConfigs : c[1].WINEPREFIX = Unset } :
         /\ environ = cfg[1]
         /\ flatpakOnPath = cfg[2]
         /\ bottleDirExists = cfg[3]
    /\ licenseDirs \in {{}, {"steamuser"}}
    /\ cvFiles = licenseDirs
    /\ SessionInit
    /\ LoopInit
    /\ PathInit
    /\ ChainInit

WebNext ==
    \/ AuthStart
    \/ AuthCallback
    \/ AuthStatus

WebSpec == WebInit /\ [][WebNext]_vars

\* The capture and the inject endpoint of one server, called in any order.
InjectNext ==
    \/ AuthCallback
    \/ AuthInject

InjectSpec == WebInit /\ [][InjectNext]_vars

\* The forwarder beside the server: URI activations relayed one after the
\* other, over the configurations and guest file systems of WebSpec.
RelayNext ==
    \/ HandleUri
    \/ RelayedCallback
    \/ RelayRefused

RelaySpec == WebInit /\ [][RelayNext]_vars

\* The prefix resolver and the path translation, in every configuration
\* and over each of the link tables.
PathSpecInit ==
    /\ ConfigInit
    /\ symlinks \in LinkTables(GetWinePrefix)
    /\ wine_prefix = NoPath
    /\ unix_path = NoPath
    /\ win_path = NoPath
    /\ exeFiles = {}
    /\ exe_path = NoExe
    /\ licenseDirs = {}
    /\ cvFiles = {}
    /\ SessionInit
    /\ LoopInit
    /\ ChainInit

PathSpec == PathSpecInit /\ [][PathNext]_vars

\* The executable lookup in every configuration, over every set of places
\* at which the executable lies.
LocateSpecInit ==
    /\ ConfigInit
    /\ symlinks = {}
    /\ wine_prefix = NoPath
    /\ unix_path = NoPath
    /\ win_path = NoPath
    /\ exeFiles \in SUBSET (Range(ExeCandidates) \cup OtherExePlaces)
    /\ exe_path = NoExe
    /\ licenseDirs = {}
    /\ cvFiles = {}
    /\ SessionInit
    /\ LoopInit
    /\ ChainInit

LocateNext ==
    \/ ResolvePrefix
    \/ LocateExecutable

LocateSpec == LocateSpecInit /\ [][LocateNext]_vars

\* Two callbacks arriving at the event loop at any time of each other.
LoopSpec == Init /\ [][LoopNext]_vars

----------------------------------------------------------------------------
(* Properties of the capture endpoint and the hand-off writer (Spec).      *)

CaptureCode == Get(last_auth_params, "code")

\* the capture just handled carried a non-empty authorization code
CodeCaptured == cap.route = "code" /\ Truthy(CaptureCode)

\* the candidate identities, in the order they are probed
Candidates == Range(PossibleUsers)

\* the first candidate, in probing order, whose license directory exists
FirstExistingCandidate ==
    LET users == PossibleUsers
        hits == { i \in 1..Len(users) : users[i] \in licenseDirs }
    IN  users[CHOOSE i \in hits : \A j \in hits : i <= j]

\* C1: whenever exactly one candidate identity u has its sentinel file, a
\* capture carrying an authorization code c (non-empty, and whose target
\* file can be written) ends with u's target file holding exactly c, no
\* other target file written, and delivered = true.
C1_SoleSentinelReceivesCode ==
    (CodeCaptured /\ cap.ioError # "cb" /\ Cardinality(cvFiles) = 1)
        => \A u \in cvFiles :
              /\ cbFile[u] = CaptureCode
              /\ Range(cap.written) \subseteq {u}
              /\ cap.success = "true"

\* C2: for every capture that reaches the hand-off writer (the code
\* parameter is present, possibly empty), the delivered result and the
\* success response are given exactly when the primary channel wrote the
\* code into a target file during that capture.
C2_DeliveredIffWritten ==
    cap.route = "code"
        => /\ (cap.success = "true") <=> (cap.written # <<>>)
           /\ (cap.status = 200) <=> (cap.written # <<>>)

\* C3: with no sentinel file under any candidate but at least one candidate
\* license directory, a capture carrying a code (and meeting no file error)
\* writes the code to the target file of the first existing candidate
\* directory and reports delivered = true.
C3_FallbackToFirstExistingDir ==
    (CodeCaptured /\ cap.ioError = "none" /\ cvFiles = {}
       /\ licenseDirs # {})
        => /\ cbFile[FirstExistingCandidate] = CaptureCode
           /\ cap.written = <<FirstExistingCandidate>>
           /\ cap.success = "true"

\* C4: when no candidate license directory exists, a capture carrying a
\* code reports delivered = false and no target file exists afterwards.
C4_NoDirectoryNotDelivered ==
    (CodeCaptured /\ licenseDirs = {})
        => /\ cap.success = "false"
           /\ \A u \in Identities : cbFile[u] = NoFile

\* the file the hand-off writer chooses in the present guest file system
HandoffTarget ==
    IF cvFiles \cap Candidates # {}
    THEN {PossibleUsers[FirstWithCv(PossibleUsers)]}
    ELSE {FallbackUser} \cap licenseDirs

\* C19: the registry channel never changes delivered: once the registry
\* injection has run for a capture carrying a code, whether it succeeded,
\* failed for some keys, failed entirely or could not be launched, the
\* primary hand-off is attempted and the delivered result and the file
\* written are those the guest file system alone determines.
C19_RegistryNeverChangesDelivered ==
    (CodeCaptured /\ cap.regRet # "not called")
        => /\ cap.cbRet # "not called"
           /\ cap.probed # <<>>
           /\ cap.success = "true"
           /\ cap.status = 200
           /\ cap.ioError = "none" => Range(cap.written) = HandoffTarget
           /\ cap.ioError = "none"
                => (cap.cbRet = "true" <=> HandoffTarget # {})

\* the registry tools could not be launched and the code was handed off
C19_Witness ==
    /\ CodeCaptured
    /\ cap.regRet = "false"
    /\ cap.regTried = <<>>
    /\ cap.written # <<>>
    /\ cap.success = "true"

\* C20: a file-system error while writing the diagnostic payload is
\* recovered locally: the primary hand-off is still attempted and the
\* delivered result reflects only whether the code was placed.
C20_PayloadErrorRecovered ==
    (CodeCaptured /\ cap.ioError = "payload")
        => /\ cap.cbRet # "not called"
           /\ cap.probed # <<>>
           /\ cap.success = "true" <=> cap.written # <<>>
           /\ HandoffTarget # {} => Range(cap.written) = HandoffTarget

\* the first identity with a sentinel file, in the order steamuser, Public,
\* host user name
FirstSentinel ==
    IF "steamuser" \in cvFiles THEN "steamuser"
    ELSE IF "Public" \in cvFiles THEN "Public"
    ELSE PossibleUsers[3]

\* C22: when several candidate identities have a sentinel file, the code
\* is written only to the target file of the first one in candidate order
\* (steamuser, Public, host user name); in every capture at most one target
\* file is written, and it is written at most once.
C22_FirstSentinelWins ==
    [][cap'.route = "code"
         => /\ Len(cap'.written) <= 1
            /\ \A u \in Identities :
                  cbFile'[u] # cbFile[u] => cap'.written = <<u>>
            /\ Cardinality(cvFiles \cap Candidates) >= 2
                 => Range(cap'.written) \subseteq {FirstSentinel}]_vars

\* Public and the host user have a sentinel, steamuser has none
C22_Witness ==
    /\ CodeCaptured
    /\ Cardinality(cvFiles \cap Candidates) >= 2
    /\ "steamuser" \notin cvFiles
    /\ cap.written = <<"Public">>
    /\ cbFile["Public"] = CaptureCode

\* C24: in a Managed environment the registry channel attempts to write
\* all five keys (AuthCode, State, SessionState, Issuer, AuthTimestamp),
\* each exactly once and in that order, whatever the earlier key writes
\* did; a failed key write never stops the remaining ones, and the channel
\* still reports success.
C24_AllFiveKeysAttempted ==
    (cap.route = "code" /\ cap.regRet # "not called" /\ RegistryManaged)
        => /\ cap.regTried =
                <<"AuthCode", "State", "SessionState", "Issuer",
                  "AuthTimestamp">>
           /\ cap.regRet = "true"

----------------------------------------------------------------------------
(* Properties of the session record.                                       *)

\* the first of the named parameters that is present and non-empty
FirstPresent(params, keys) ==
    LET hits == { i \in 1..Len(keys) : Truthy(Get(params, keys[i])) }
    IN  IF hits = {} THEN ""
        ELSE params[keys[CHOOSE i \in hits : \A j \in hits : i <= j]]

\* the parameters carry a token (access_token or token) and no code
TokenOnly(params) ==
    /\ "code" \notin DOMAIN params
    /\ FirstPresent(params, <<"access_token", "token">>) # ""

\* C11: a capture that carries a token (access_token or token) and no code
\* updates the session with that token and the user info derived from the
\* parameters, and never invokes the primary channel: no sentinel is probed
\* and no target file (nor the payload file) is written.
C11_TokenCaptureUpdatesSessionOnly ==
    [][TokenOnly(last_auth_params')
         => /\ cap'.route = "token"
            /\ auth_token' =
                 FirstPresent(last_auth_params', <<"access_token", "token">>)
            /\ user_info' =
                 [user_id |->
                      FirstPresent(last_auth_params', <<"user_id", "uid">>),
                  username |->
                      FirstPresent(last_auth_params', <<"username", "user">>),
                  email |-> FirstPresent(last_auth_params', <<"email">>)]
            /\ cap'.probed = <<>>
            /\ cap'.written = <<>>
            /\ cbFile' = cbFile
            /\ tokenFile' = tokenFile]_vars

\* a token capture through the alias names, after a code was handed off
C11_Witness ==
    /\ cap.route = "token"
    /\ auth_token = TokenB
    /\ user_info = [user_id |-> "u2", username |-> "carol", email |-> ""]
    /\ \E u \in Identities : cbFile[u] # NoFile

\* C12: a capture with neither a code nor a token is answered with the
\* invalid-request condition (400) and leaves every field of the session
\* unchanged, last_auth_params included: the status endpoint reports the
\* same authenticated, has_auth_code and user_info before and after it.
C12_InvalidCaptureLeavesSession ==
    [][cap'.route = "invalid"
         => /\ cap'.status = 400
            /\ auth_token' = auth_token
            /\ user_info' = user_info
            /\ last_auth_params' = last_auth_params
            /\ StatusBody' = StatusBody]_vars

\* the token a capture with these parameters carries, None if it has none
TokenOf(params) ==
    LET t == FirstPresent(params, <<"access_token", "token">>)
    IN  IF t = "" THEN PyNone ELSE t

\* C13: after any sequence of valid captures (each carrying a non-empty
\* code, or a token) the session record (token,
\* user info, last auth params) and the access_token of the diagnostic
\* payload derive from the most recent capture only: a token or user info
\* held by the session, and the access_token stored next to the payload's
\* auth_params, are those of the latest capture, never of an earlier one.
C13_SessionFromLatestCaptureOnly ==
    (CodeCaptured \/ cap.route = "token")
        => /\ auth_token # PyNone => auth_token = TokenOf(last_auth_params)
           /\ user_info # NoUserInfo
                => user_info =
                     [user_id |->
                          FirstPresent(last_auth_params, <<"user_id", "uid">>),
                      username |->
                          FirstPresent(last_auth_params,
                                       <<"username", "user">>),
                      email |-> FirstPresent(last_auth_params, <<"email">>)]
           /\ (tokenFile # NoPayload /\ tokenFile.access_token # PyNone)
                => tokenFile.access_token = TokenOf(tokenFile.auth_params)

StartedAttemptHandled ==
    /\ CodeCaptured
    /\ Len(attempt) > 2
    /\ attempt[2] = "AwaitingCallback"

\* C16: each authorization attempt passes through Idle, AwaitingCallback,
\* CallbackReceived, HandoffAttempted and then exactly one of Delivered or
\* DeliveryFailed, in that order, also when it follows an attempt that has
\* ended; stated here for the attempts begun by /auth/start whose callback
\* carries a non-empty code.
C16_AttemptStatesInOrder ==
    StartedAttemptHandled
        => \E final \in {"Delivered", "DeliveryFailed"} :
              attempt = <<"Idle", "AwaitingCallback", "CallbackReceived",
                          "HandoffAttempted", final>>

----------------------------------------------------------------------------
(* Properties of concurrent captures (LoopSpec).                           *)

\* the positions of the trace at which the target file of u was written
WritesTo(u) ==
    { i \in 1..Len(trace) : trace[i].op = "write" /\ trace[i].user = u }

LastWriter(u) ==
    trace[CHOOSE i \in WritesTo(u) : \A j \in WritesTo(u) : j <= i].task

\* C14: the probe-then-write sequences of two concurrent captures carrying
\* codes are serialised: no probe or write of one capture lies between a
\* probe and the write of the other, and a target file that was written
\* holds exactly one of the two codes, in full: that of its last writer.
C14_ProbeThenWriteSerialised ==
    /\ \A i, k \in 1..Len(trace) :
          (i < k /\ trace[i].task = trace[k].task)
              => \A j \in i..k : trace[j].task = trace[i].task
    /\ \A u \in Identities :
          WritesTo(u) # {}
              => /\ cbFile[u] = task[LastWriter(u)].code
                 /\ cbFile[u] \in { task[t].code : t \in Tasks }

\* both captures ran to their end and wrote different codes to one file
C14_Witness ==
    /\ \A t \in Tasks : task[t].pc = "done"
    /\ task[1].code # task[2].code
    /\ \E u \in Identities : Cardinality(WritesTo(u)) = 2

----------------------------------------------------------------------------
(* Properties of the path translation and the resolver (PathSpec).         *)

\* text.split(sep)
RECURSIVE SplitFrom(_, _, _, _)
SplitFrom(text, sep, i, cur) ==
    IF i > Len(text) THEN <<cur>>
    ELSE IF text[i] = sep
    THEN <<cur>> \o SplitFrom(text, sep, i + 1, <<>>)
    ELSE SplitFrom(text, sep, i + 1, Append(cur, text[i]))

Split(text, sep) ==
    IF text = <<>> THEN <<>> ELSE SplitFrom(text, sep, 1, <<>>)

IsGuestPath(text) ==
    Len(text) >= 2 /\ text[1] = "C:" /\ text[2] = Backslash

\* the host path a guest path stands for under the drive root of the prefix
GuestToHost(text, prefix) ==
    Append(prefix, DriveC) \o Split(SubSeq(text, 3, Len(text)), Backslash)

\* C17: the path translation is a partial inverse: for every host path p
\* below the drive root of the prefix the result is a guest path (drive
\* letter plus backslash-separated segments) which, mapped back under the
\* same prefix, gives p; for every p outside the drive root the result is
\* p unchanged.
C17_TranslatePathPartialInverse ==
    win_path # NoPath
        => IF RelativeTo(unix_path, Append(wine_prefix, DriveC)).ok
           THEN /\ IsGuestPath(win_path)
                /\ GuestToHost(win_path, wine_prefix) = unix_path
           ELSE win_path = HostText(unix_path)

\* a container identifier is configured and its data directory exists
ManagedAvailable == environ.SV2_BOTTLE_NAME # "" /\ bottleDirExists

\* C18: the resolver never fails: it returns the Managed container
\* directory exactly when a container identifier is configured and that
\* container's data directory exists; in every other configuration it
\* returns a Plain root, the configured override if one is set and the
\* fixed default root otherwise.
C18_ResolveTotal ==
    wine_prefix # NoPath
        => /\ ManagedAvailable
                <=> wine_prefix = BottlesPrefix(environ.SV2_BOTTLE_NAME)
           /\ (~ManagedAvailable /\ environ.WINEPREFIX # Unset)
                => wine_prefix = OverridePath(environ.WINEPREFIX)
           /\ (~ManagedAvailable /\ environ.WINEPREFIX = Unset)
                => wine_prefix = DefaultPrefix

\* an identifier is configured but its directory is missing: the override
C18_Witness ==
    /\ environ.SV2_BOTTLE_NAME = "sv2"
    /\ ~bottleDirExists
    /\ wine_prefix = PathOf(<<"opt", "prefix">>)

----------------------------------------------------------------------------
(* Properties of the delivery chain (ChainSpec).                           *)

SuccessAfter(i) ==
    \E j \in (i + 1)..Len(chInvoked) : chInvoked[j].outcome = "Success"

\* attempt i was followed by the next method of its chain, or the chain
\* stands right before that method
NextMethodFollows(i) ==
    \/ /\ Len(chInvoked) > i
       /\ chInvoked[i + 1].method = Following(chInvoked[i].method)
    \/ /\ Len(chInvoked) = i
       /\ chPc = Following(chInvoked[i].method)

\* C5: chain monotonicity: once a method is classified Success no later
\* method is invoked and the chain has returned true.
C5_ChainMonotonic ==
    \A i \in 1..Len(chInvoked) :
        chInvoked[i].outcome = "Success"
            => /\ i = Len(chInvoked)
               /\ chPc = "returned"
               /\ chResult = "true"

C5_Witness ==
    /\ Len(chInvoked) = 2
    /\ chInvoked[1].outcome # "Success"
    /\ chInvoked[2] = [method |-> "batch", outcome |-> "Success"]
    /\ chPc = "returned"
    /\ chResult = "true"

\* C6: a timeout of a non-last method never aborts the chain: the next
\* method is attempted (the attempt of the batch method begins with writing
\* its two files), and a result the chain returns is true exactly when one
\* of the remaining methods succeeded.
C6_TimeoutAdvances ==
    \A i \in 1..Len(chInvoked) :
        (chInvoked[i].outcome = "TimedOut" /\ ~IsLast(chInvoked[i].method))
            => /\ NextMethodFollows(i)
               /\ chPc = "returned" => (chResult = "true" <=> SuccessAfter(i))

C6_Witness ==
    /\ Len(chInvoked) >= 3
    /\ chInvoked[2] = [method |-> "batch", outcome |-> "TimedOut"]
    /\ chInvoked[3].method = "protocol_dispatch"
    /\ chPc = "returned"

\* C7: a Failure of a non-last method (non-zero exit, or a command that
\* cannot be launched) is followed by an attempt of the next method, in the
\* Managed and in the Plain chain.
C7_FailureAdvances ==
    \A i \in 1..Len(chInvoked) :
        (chInvoked[i].outcome = "Failure" /\ ~IsLast(chInvoked[i].method))
            => NextMethodFollows(i)

\* the known error signatures: shell-syntax complaint, ShellExecute failure
\* marker, executable-not-found marker, "unexpected" parser error
HasErrorSignature(text) ==
    \/ Contains(text, "/bin/sh")
    \/ Contains(text, "ShellExecuteEx")
    \/ Contains(text, "Executable file path does not exist")
    \/ Contains(Lower(text), "unexpected")

\* C8: an attempt that exits with code 0 while its stdout or stderr holds a
\* known error signature is classified Failure, never Success, for every
\* method of both chains.
C8_SignatureMeansFailure ==
    (/\ chInvoked # <<>>
     /\ chLast.kind = "exit"
     /\ chLast.rc = 0
     /\ HasErrorSignature(chLast.stderr \cup chLast.stdout))
        => chInvoked[Len(chInvoked)].outcome = "Failure"

\* C9: the chain ends only by returning a boolean, true exactly when some
\* method was classified Success; it never ends by an uncaught error.
C9_AlwaysReturnsBoolean ==
    /\ chPc # "raised"
    /\ chPc = "returned" => (chResult = "true" <=> SuccessAfter(0))

\* C10: every method of both chains is bounded by a timeout, so the chain
\* never waits forever on an external command that does not exit.
C10_EveryStepBounded ==
    /\ chPc # "blocked"
    /\ \A i \in 1..Len(chInvoked) :
          chInvoked[i].outcome = "Pending"
              => TimeoutOf(chInvoked[i].method) # NoTimeout

\* the chain of the running call
ChainOf ==
    IF ChainVariant(chBottle) = "Managed" THEN ManagedMethods
    ELSE PlainMethods

\* C21: in both chains a method is invoked only after every earlier method
\* of the same chain was invoked and was not classified Success: the
\* Managed chain runs shell-bridge, batch-indirection, protocol-dispatch,
\* direct executable in that order, the Plain chain the start launcher and
\* then protocol-dispatch, and no method is invoked twice in one run.
C21_MethodsInOrder ==
    /\ Len(chInvoked) <= Len(ChainOf)
    /\ \A i \in 1..Len(chInvoked) :
          /\ chInvoked[i].method = ChainOf[i]
          /\ \A j \in 1..(i - 1) : chInvoked[j].outcome # "Success"

\* the whole Managed chain was run, its last method succeeding
C21_Witness ==
    /\ Len(chInvoked) = 4
    /\ chInvoked[1].outcome = "Failure"
    /\ chInvoked[2].outcome = "TimedOut"
    /\ chInvoked[3].outcome = "Failure"
    /\ chInvoked[4] = [method |-> "direct_exe", outcome |-> "Success"]

\* the resolver returns the Managed container directory
ResolverManaged ==
    /\ environ.SV2_BOTTLE_NAME # ""
    /\ GetWinePrefix = BottlesPrefix(environ.SV2_BOTTLE_NAME)

\* C23: an operation chooses the management-tool path exactly when the
\* resolver returns the Managed container directory as root; stated for
\* the delivery chain: it runs its Managed methods exactly when the
\* resolver returns the Managed directory, and its Plain methods against
\* the root the resolver returns for the same configuration (the bottle
\* of the call being the one of the environment).
C23_ManagedIffResolverManaged ==
    (chInvoked # <<>> /\ chBottle = environ.SV2_BOTTLE_NAME)
        => /\ ChainVariant(chBottle) = "Managed" <=> ResolverManaged
           /\ ChainVariant(chBottle) = "Plain"
                => PlainChainRoot = GetWinePrefix

----------------------------------------------------------------------------
(* Properties of the executable lookup (LocateSpec).                       *)

\* the known install paths that exist
KnownPresent == Range(ExeCandidates) \cap exeFiles

\* the first known install path that exists, in the fixed order
FirstKnown ==
    IF ExeCandidates[1] \in exeFiles THEN ExeCandidates[1]
    ELSE IF ExeCandidates[2] \in exeFiles THEN ExeCandidates[2]
    ELSE ExeCandidates[3]

UnderDriveC(rel) == Append(wine_prefix, DriveC) \o rel

\* C25: the lookup returns the first of the known install paths, in their
\* fixed order, that exists under the root; only when none exists does it
\* perform the recursive search and return its first match; it returns
\* None exactly when neither a known path nor any recursive match exists.
C25_LocateExecutable ==
    exe_path # NoExe
        => /\ KnownPresent # {} => exe_path.path = UnderDriveC(FirstKnown)
           /\ exe_path.search # "not run" => KnownPresent = {}
           /\ (KnownPresent = {} /\ exeFiles # {})
                => exe_path.path \in { UnderDriveC(f) : f \in exeFiles }
           /\ exe_path.path = NoPath <=> exeFiles = {}

\* C25, amended: as above, except that None is returned exactly when
\* neither a known path nor any recursive match exists, or when no known
\* path exists and the recursive search ends with an error before its
\* first match.
C25_LocateExecutableAmended ==
    exe_path # NoExe
        => /\ KnownPresent # {} => exe_path.path = UnderDriveC(FirstKnown)
           /\ exe_path.search # "not run" <=> KnownPresent = {}
           /\ (KnownPresent = {} /\ exeFiles # {}
                 /\ exe_path.search = "completed")
                => exe_path.path \in { UnderDriveC(f) : f \in exeFiles }
           /\ exe_path.path = NoPath
                <=> \/ exeFiles = {}
                    \/ KnownPresent = {} /\ exe_path.search = "raised"

\* the second and the third known path exist, and another place as well
C25_Witness ==
    /\ exe_path # NoExe
    /\ Cardinality(KnownPresent) = 2
    /\ ExeCandidates[1] \notin exeFiles
    /\ exeFiles \ KnownPresent # {}
    /\ exe_path.path = UnderDriveC(ExeCandidates[2])

----------------------------------------------------------------------------
(* Properties of the URI forwarder (RelaySpec).                            *)

\* the parameters of a URI: of each name in the query or the fragment the
\* first value, the fragment's if the fragment has the name
ExpectedParams(uri) ==
    LET q == ParseQsl(UrlParse(uri).query)
        f == ParseQsl(UrlParse(uri).fragment)
        Keys(pairs) == { Text(pairs[i].name) : i \in 1..Len(pairs) }
        First(pairs, k) ==
            Text(pairs[CHOOSE i \in 1..Len(pairs) :
                         /\ Text(pairs[i].name) = k
                         /\ \A j \in 1..(i - 1) : Text(pairs[j].name) # k
                      ].value)
    IN  [k \in Keys(q) \cup Keys(f) |->
            IF k \in Keys(f) THEN First(f, k) ELSE First(q, k)]

\* the step in which the server answers the forwarder's request
RelayAnswered == relayed.state = "sent" /\ relayed'.state = "answered"

\* the step has on the hand-off files and the session the effect of a
\* direct callback with exactly the parameters of the relayed URI
RelayIsDirectCallback ==
    /\ last_auth_params' = ExpectedParams(relayed.uri)
    /\ CallbackHandler(ExpectedParams(relayed.uri))

\* C26: a URI activation is relayed as a callback carrying exactly the
\* parameters of the URI's query and fragment (first value per key, the
\* fragment overriding the query), with the effect of a direct callback
\* with those parameters; the forwarder reports handled = true iff the
\* capture endpoint answered with status 200.
C26_RelayedAsCallback ==
    [][ /\ RelayAnswered
          => /\ RelayIsDirectCallback
             /\ handled' = "true" <=> relayed'.answer = 200
        /\ relayed'.state = "refused" => handled' = "false"
      ]_vars

\* C26, amended: as above, but handled = true iff the endpoint answered
\* with status 200 within the five seconds the forwarder waits.
C26_RelayedAsCallbackInTime ==
    [][ /\ RelayAnswered
          => /\ RelayIsDirectCallback
             /\ handled' = "true"
                  <=> (relayed'.answer = 200 /\ relayed'.in_time)
        /\ relayed'.state = "refused" => handled' = "false"
      ]_vars

\* a URI whose fragment repeats a name of the query was relayed, the
\* fragment's code was handed off and the forwarder reported success
C26_Witness ==
    /\ relayed.state = "answered"
    /\ IndexOf(relayed.uri, "#") > IndexOf(relayed.uri, "?")
    /\ IndexOf(relayed.uri, "?") > 0
    /\ handled = "true"
    /\ last_auth_params = [code |-> "xyz789", state |-> "s1"]
    /\ \E u \in Identities : cbFile[u] = "xyz789"

----------------------------------------------------------------------------
(* Properties of the paths that handle an access token (InjectSpec).       *)

\* C27: every path that handles an access token runs to completion
\* without an internal error: a callback carrying a token and no code ends
\* with the success response after the session update, an inject request
\* made while a token is stored ends with a success/error status response,
\* and an inject request made while no token is stored is rejected with
\* 400.
C27_TokenPathsComplete ==
    /\ cap.route = "token" => (cap.status = 200 /\ auth_token # PyNone)
    /\ injectResp # NoReply
         => IF injectResp.tokenStored
            THEN /\ injectResp.status = 200
                 /\ injectResp.body \in {"success", "error"}
            ELSE injectResp.status = 400

----------------------------------------------------------------------------
(* Properties of a capture with a code and a token (Spec).                 *)

\* the capture whose parameters are p carries a code and an access token
CarriesBoth(p) ==
    /\ p # NoParams
    /\ "code" \in DOMAIN p
    /\ Truthy(AccessTokenOf(p))

----------------------------------------------------------------------------
(* Properties of the authenticated flag (WebSpec).                         *)

\* the flag a status query would report now
Authenticated == StatusBody.authenticated

\* the flag the last status query reported
ReportedAuthenticated ==
    snapshot # NoSnapshot /\ snapshot.body.authenticated

\* C29: the authenticated flag reported by status queries is monotonic
\* over the life of the process: it is false until the first capture
\* carrying a token and no code, that capture makes it true, and once true
\* no later capture (code, token or invalid) and no failed hand-off makes
\* it false again; a capture carrying a code never makes it true.
C29_AuthenticatedMonotonic ==
    [][ /\ last_auth_params = NoParams => ~Authenticated
        /\ Authenticated => Authenticated'
        /\ ReportedAuthenticated => ReportedAuthenticated'
        /\ ReportedAuthenticated' => Authenticated'
        /\ (~Authenticated /\ Authenticated')
             => /\ TokenOnly(last_auth_params')
                /\ cap'.route = "token"
        /\ (cap' # cap /\ cap'.route = "token") => Authenticated'
      ]_vars

\* a status query reports the flag as true after a token capture that was
\* followed by a code capture whose hand-off failed
C29_Witness ==
    /\ ReportedAuthenticated
    /\ cap.route = "code"
    /\ cap.status = 500
    /\ "code" \in DOMAIN last_auth_params
    /\ ~Truthy(AccessTokenOf(last_auth_params))

====
